---------------------------- MODULE Spec2Model ----------------------------
(***************************************************************************)
(* Trigger and schedule engine of the ESP8266 diffuser controller          *)
(* (src/src/main.cpp): the non-blocking pulse on the trigger pin, the      *)
(* repeating interval, the daily schedule with its fired-today flags, and  *)
(* the MQTT / HTTP handlers that change them.                              *)
(*                                                                         *)
(* Scaling.  The device's `unsigned long` / `uint32_t` have 2^32 values    *)
(* and a second has 1000 ticks of millis().  The model keeps the modular   *)
(* arithmetic and the signed reinterpretation of a difference, with        *)
(* TickBits bits per word instead of 32 and MsPerSec ticks per second      *)
(* instead of 1000.  Texts (MQTT payloads, form fields, schedule entries)  *)
(* are sequences of one-character strings, so that the parsing functions   *)
(* are computed as the code computes them.                                 *)
(***************************************************************************)
EXTENDS Integers, Sequences, FiniteSets, TLC

\* ------------------------------------------------------------------ bounds

\* Width in bits of the scaled unsigned word (32 on the device).
TickBits == 3
\* Ticks of millis() in one second of interval period (1000 on the device).
MsPerSec == 2
\* Largest number of schedule entries the model lets the list grow to.
MaxSched == 2

\* Number of values of the unsigned word.
TickMod == 2 ^ TickBits

\* Values below Half are non-negative when a word is reinterpreted as signed.
Half == TickMod \div 2

\* (uint32_t) x : conversion of a signed value to the unsigned word.
ToUint(x) == x % TickMod

\* (long) x : an unsigned word reinterpreted as a signed value.
ToLong(x) == IF x < Half THEN x ELSE x - TickMod

\* ------------------------------------------------------------------- texts

Digits == {"0", "1", "2", "3", "4", "5", "6", "7", "8", "9"}

DigitVal == ("0" :> 0) @@ ("1" :> 1) @@ ("2" :> 2) @@ ("3" :> 3) @@ ("4" :> 4)
            @@ ("5" :> 5) @@ ("6" :> 6) @@ ("7" :> 7) @@ ("8" :> 8) @@ ("9" :> 9)

IsSpace(c) == c \in {" ", "\t", "\n", "\r"}

LowerToUpper == ("a" :> "A") @@ ("c" :> "C") @@ ("d" :> "D") @@ ("e" :> "E")
                @@ ("g" :> "G") @@ ("h" :> "H") @@ ("i" :> "I") @@ ("l" :> "L")
                @@ ("n" :> "N") @@ ("o" :> "O") @@ ("p" :> "P") @@ ("r" :> "R")
                @@ ("s" :> "S") @@ ("t" :> "T") @@ ("u" :> "U") @@ ("v" :> "V")

ToUpper(c) == IF c \in DOMAIN LowerToUpper THEN LowerToUpper[c] ELSE c

\* String::substring(from) and String::substring(from, to), 0-based, to exclusive.
substringFrom(s, from) == SubSeq(s, from + 1, Len(s))

substring(s, from, to) == SubSeq(s, from + 1, to)

\* String::indexOf(c): 0-based index of the first occurrence, -1 when absent.
indexOf(s, c) ==
  IF \E i \in 1..Len(s) : s[i] = c
  THEN (CHOOSE i \in 1..Len(s) : s[i] = c /\ \A j \in 1..(i - 1) : s[j] # c) - 1
  ELSE -1

\* String::startsWith(prefix), case-sensitive.
startsWith(s, prefix) ==
  /\ Len(s) >= Len(prefix)
  /\ SubSeq(s, 1, Len(prefix)) = prefix

\* String::equalsIgnoreCase(other).
equalsIgnoreCase(s, other) ==
  /\ Len(s) = Len(other)
  /\ \A i \in 1..Len(s) : ToUpper(s[i]) = ToUpper(other[i])

RECURSIVE TrimLeft(_)
TrimLeft(s) == IF s # <<>> /\ IsSpace(Head(s)) THEN TrimLeft(Tail(s)) ELSE s

RECURSIVE TrimRight(_)
TrimRight(s) ==
  IF s # <<>> /\ IsSpace(s[Len(s)]) THEN TrimRight(SubSeq(s, 1, Len(s) - 1)) ELSE s

\* String::trim(): leading and trailing white space removed.
trim(s) == TrimRight(TrimLeft(s))

RECURSIVE DigitsValue(_, _)
DigitsValue(s, acc) ==
  IF s # <<>> /\ Head(s) \in Digits
  THEN DigitsValue(Tail(s), 10 * acc + DigitVal[Head(s)])
  ELSE acc

\* String::toInt() (atol): white space, an optional sign, then the leading
\* digits; 0 when there are none.  The result is a signed long.
toInt(s) ==
  LET t == TrimLeft(s)
  IN  IF t # <<>> /\ Head(t) = "-" THEN 0 - DigitsValue(Tail(t), 0)
      ELSE IF t # <<>> /\ Head(t) = "+" THEN DigitsValue(Tail(t), 0)
      ELSE DigitsValue(t, 0)

\* parseTimeToMinutes("HH:MM"): minutes since midnight, -1 when rejected.
parseTimeToMinutes(hhmm) ==
  IF Len(hhmm) < 4 THEN -1
  ELSE LET colon == indexOf(hhmm, ":")
       IN  IF colon < 0 THEN -1
           ELSE LET hh == toInt(substring(hhmm, 0, colon))
                    mm == toInt(substringFrom(hhmm, colon + 1))
                IN  IF hh < 0 \/ hh > 23 \/ mm < 0 \/ mm > 59 THEN -1
                    ELSE hh * 60 + mm

\* ------------------------------------------------------------ configuration

\* GPIO numbers the model offers for the trigger pin: D1 (the default) and D2.
Pins == {5, 4}

\* AppConfig's defaults (the MQTT transport settings are not modelled).
DefaultConfig ==
  [triggerPin |-> 5, triggerActiveHigh |-> TRUE, triggerDurationMs |-> 1,
   intervalSeconds |-> 0, intervalEnabled |-> FALSE,
   timezoneOffsetMinutes |-> 0, scheduleTimes |-> <<>>]

VARIABLES
  config,              \* AppConfig config
  store,               \* the document held in /config.json
  lastTriggerAt,       \* unsigned long lastTriggerAt
  triggerInProgress,   \* bool triggerInProgress
  nextIntervalAt,      \* unsigned long nextIntervalAt (0: not armed)
  lastTimeCheck,       \* time_t lastTimeCheck
  lastDayOfYear,       \* int lastDayOfYear
  scheduleFiredToday,  \* std::vector<bool> scheduleFiredToday
  firedDays,           \* observation: for each entry, the local days on which the schedule requested a pulse for it
  gpio,                \* level last written to each pin, "unset" before any write
  ms,                  \* what millis() returns
  clock,               \* what time(nullptr) returns (UTC epoch seconds)
  pc,                  \* position of the control loop inside loop()
  firedOn,             \* observation: pin and level written by the last accepted triggerPulse()
  evaluatedAt,         \* observation: the values of time(nullptr) the schedule was evaluated for
  armed,               \* observation: the deadline has been armed since startup
  sinceArmed,          \* observation: ticks since startup or the last update that enabled the interval (up to Half)
  obs                  \* observation: what the last program step did

vars == <<config, store, lastTriggerAt, triggerInProgress, nextIntervalAt,
          lastTimeCheck, lastDayOfYear, scheduleFiredToday, firedDays, gpio, ms,
          clock,
          pc, firedOn, evaluatedAt, armed, sinceArmed, obs>>

NoPin == [pin |-> -1, level |-> "unset"]

\* obs.op: the handler the step ran ("none" for a step of loop() itself);
\* obs.calls: triggerPulse() calls made by the step; obs.accepts: those that
\* started a pulse; obs.writers: the functions that called digitalWrite();
\* obs.arg: the number the step parsed from its input; obs.text: the time text
\* (for the config form, the pulseMs text) it was given; obs.ok: the step took its accepting branch; obs.msg: the
\* MQTT message the step was handed, trimmed.
Quiet ==
  [op |-> "none", calls |-> 0, accepts |-> 0, writers |-> {}, arg |-> 0,
   text |-> <<>>, ok |-> FALSE, msg |-> <<>>]

Did(op) == [Quiet EXCEPT !.op = op]

FiredCount(flags) == Cardinality({i \in DOMAIN flags : flags[i]})

AllFalse(n) == [i \in 1..n |-> FALSE]

\* loadConfig(): every field is taken from the document as it is; only the
\* schedule entries are filtered through parseTimeToMinutes().
loadConfig(doc) ==
  [doc EXCEPT !.scheduleTimes =
     SelectSeq(doc.scheduleTimes, LAMBDA t : parseTimeToMinutes(t) >= 0)]

\* applyTriggerPin(): the configured pin becomes an output at the inactive level.
applyTriggerPin(g, cfg) ==
  [g EXCEPT ![cfg.triggerPin] = IF cfg.triggerActiveHigh THEN "LOW" ELSE "HIGH"]

\* The pulse state a handler threads through its triggerPulse() calls.
PulseRec ==
  [triggerInProgress |-> triggerInProgress, lastTriggerAt |-> lastTriggerAt,
   gpio |-> gpio, firedOn |-> firedOn, calls |-> 0, accepts |-> 0]

\* Mutant of triggerPulse(): the in-progress guard is missing.
triggerPulseRestarts(P, cfg, now) ==
  LET lvl == IF cfg.triggerActiveHigh THEN "HIGH" ELSE "LOW"
  IN  [P EXCEPT !.triggerInProgress = TRUE,
                !.lastTriggerAt = now,
                !.gpio[cfg.triggerPin] = lvl,
                !.firedOn = [pin |-> cfg.triggerPin, level |-> lvl],
                !.calls = @ + 1,
                !.accepts = @ + 1]

\* triggerPulse(): ignored while a pulse is in progress; otherwise records
\* millis() and drives the configured pin to the active level.
triggerPulse(P, cfg, now) ==
  IF P.triggerInProgress THEN [P EXCEPT !.calls = @ + 1]
  ELSE LET lvl == IF cfg.triggerActiveHigh THEN "HIGH" ELSE "LOW"
       IN  [P EXCEPT !.triggerInProgress = TRUE,
                     !.lastTriggerAt = now,
                     !.gpio[cfg.triggerPin] = lvl,
                     !.firedOn = [pin |-> cfg.triggerPin, level |-> lvl],
                     !.calls = @ + 1,
                     !.accepts = @ + 1]

SetPulse(P) ==
  /\ triggerInProgress' = P.triggerInProgress
  /\ lastTriggerAt' = P.lastTriggerAt
  /\ gpio' = P.gpio
  /\ firedOn' = P.firedOn

ObsOf(op, P, arg, ok) ==
  [op |-> op, calls |-> P.calls, accepts |-> P.accepts,
   writers |-> IF P.accepts > 0 THEN {"triggerPulse"} ELSE {},
   arg |-> arg, text |-> <<>>, ok |-> ok, msg |-> <<>>]

Heard(o, m) == [o EXCEPT !.msg = m]

pulseVars == <<triggerInProgress, lastTriggerAt, gpio, firedOn>>
schedVars == <<scheduleFiredToday, firedDays, lastTimeCheck, lastDayOfYear, evaluatedAt>>
envVars == <<ms, clock>>

\* saveConfig(): the whole configuration is written to /config.json.
saveConfig == store' = config'

\* ------------------------------------------------------------ MQTT commands

K_TRIGGER == <<"T", "R", "I", "G", "G", "E", "R">>
K_INTERVAL == <<"I", "N", "T", "E", "R", "V", "A", "L", ":">>
K_STOP_INTERVAL == <<"S", "T", "O", "P", "_", "I", "N", "T", "E", "R", "V", "A", "L">>
K_ADD_SCHEDULE == <<"A", "D", "D", "_", "S", "C", "H", "E", "D", "U", "L", "E", ":">>
K_CLEAR_SCHEDULE == <<"C", "L", "E", "A", "R", "_", "S", "C", "H", "E", "D", "U", "L", "E">>

\* The period in ticks: config.intervalSeconds * 1000UL, in the unsigned word.
PeriodTicks(cfg) == (cfg.intervalSeconds * MsPerSec) % TickMod

\* mqttCallback(): the payload is trimmed and dispatched on its text.
mqttCallback(payload) ==
  LET msg == trim(payload)
  IN  IF equalsIgnoreCase(msg, K_TRIGGER) \/ msg = <<"1">> THEN
        LET P == triggerPulse(PulseRec, config, ms)
        IN  /\ SetPulse(P)
            /\ obs' = Heard(ObsOf("TRIGGER", P, 0, TRUE), msg)
            /\ UNCHANGED <<config, store, nextIntervalAt, armed, sinceArmed, schedVars>>
      ELSE IF startsWith(msg, K_INTERVAL) THEN
        LET n == toInt(substringFrom(msg, Len(K_INTERVAL)))
            s == ToUint(n)
        IN  IF s > 0
            THEN /\ config' = [config EXCEPT !.intervalSeconds = s,
                                             !.intervalEnabled = TRUE]
                 /\ saveConfig
                 /\ nextIntervalAt' = (ms + PeriodTicks(config')) % TickMod
                 /\ sinceArmed' = 0
                 /\ armed' = TRUE
                 /\ obs' = Heard([Did("INTERVAL") EXCEPT !.arg = n, !.ok = TRUE], msg)
                 /\ UNCHANGED <<pulseVars, schedVars>>
            ELSE /\ obs' = Heard([Did("INTERVAL") EXCEPT !.arg = n], msg)
                 /\ UNCHANGED <<config, store, nextIntervalAt, armed, sinceArmed, pulseVars, schedVars>>
      ELSE IF equalsIgnoreCase(msg, K_STOP_INTERVAL) THEN
        /\ config' = [config EXCEPT !.intervalEnabled = FALSE]
        /\ saveConfig
        /\ obs' = Heard([Did("STOP_INTERVAL") EXCEPT !.ok = TRUE], msg)
        /\ UNCHANGED <<nextIntervalAt, armed, sinceArmed, pulseVars, schedVars>>
      ELSE IF startsWith(msg, K_ADD_SCHEDULE) THEN
        LET t == trim(substringFrom(msg, Len(K_ADD_SCHEDULE)))
        IN  IF parseTimeToMinutes(t) >= 0
            THEN /\ config' = [config EXCEPT !.scheduleTimes = Append(@, t)]
                 /\ saveConfig
                 /\ scheduleFiredToday' = AllFalse(Len(config'.scheduleTimes))
                 /\ firedDays' = Append(firedDays, {})
                 /\ obs' = Heard([Did("ADD_SCHEDULE") EXCEPT !.text = t, !.ok = TRUE], msg)
                 /\ UNCHANGED <<nextIntervalAt, armed, sinceArmed, pulseVars, lastTimeCheck, lastDayOfYear, evaluatedAt>>
            ELSE /\ obs' = Heard([Did("ADD_SCHEDULE") EXCEPT !.text = t], msg)
                 /\ UNCHANGED <<config, store, nextIntervalAt, armed, sinceArmed, pulseVars, schedVars>>
      ELSE IF equalsIgnoreCase(msg, K_CLEAR_SCHEDULE) THEN
        /\ config' = [config EXCEPT !.scheduleTimes = <<>>]
        /\ saveConfig
        /\ scheduleFiredToday' = AllFalse(0)
        /\ firedDays' = <<>>
        /\ obs' = Heard([Did("CLEAR_SCHEDULE") EXCEPT !.ok = TRUE], msg)
        /\ UNCHANGED <<nextIntervalAt, armed, sinceArmed, pulseVars, lastTimeCheck, lastDayOfYear, evaluatedAt>>
      ELSE
        /\ obs' = Heard(Did("none"), msg)
        /\ UNCHANGED <<config, store, nextIntervalAt, armed, sinceArmed, pulseVars, schedVars>>

\* ------------------------------------------------------------ HTTP handlers

\* ESP8266WebServer::hasArg(name) and ::arg(name) of the request being served.
hasArg(args, name) == name \in DOMAIN args

RemoveAt(seq, idx) == SubSeq(seq, 1, idx) \o SubSeq(seq, idx + 2, Len(seq))

\* handleTriggerPost(): POST /api/trigger.
handleTriggerPost(args) ==
  LET P == triggerPulse(PulseRec, config, ms)
  IN  /\ SetPulse(P)
      /\ obs' = ObsOf("handleTriggerPost", P, 0, TRUE)
      /\ UNCHANGED <<config, store, nextIntervalAt, armed, sinceArmed, schedVars>>

\* Mutant of handleIntervalPost(): the deadline is left as it was.
handleIntervalPostKeepsDeadline(args) ==
  IF ~hasArg(args, "seconds")
  THEN /\ obs' = Did("handleIntervalPost")
       /\ UNCHANGED <<config, store, nextIntervalAt, armed, sinceArmed, pulseVars, schedVars>>
  ELSE LET n == toInt(args["seconds"])
           s == ToUint(n)
           en == hasArg(args, "enabled")
       IN  /\ config' = [config EXCEPT !.intervalSeconds = s,
                                       !.intervalEnabled = (en /\ s > 0)]
           /\ saveConfig
           /\ nextIntervalAt' = nextIntervalAt
           /\ sinceArmed' = IF config'.intervalEnabled THEN 0 ELSE sinceArmed
           /\ armed' = (armed \/ config'.intervalEnabled)
           /\ obs' = [Did("handleIntervalPost") EXCEPT !.arg = n, !.ok = TRUE]
           /\ UNCHANGED <<pulseVars, schedVars>>

\* Mutant of handleIntervalPost(): disabling the interval unsets the deadline.
handleIntervalPostUnsetsDeadline(args) ==
  IF ~hasArg(args, "seconds")
  THEN /\ obs' = Did("handleIntervalPost")
       /\ UNCHANGED <<config, store, nextIntervalAt, armed, sinceArmed, pulseVars, schedVars>>
  ELSE LET n == toInt(args["seconds"])
           s == ToUint(n)
           en == hasArg(args, "enabled")
       IN  /\ config' = [config EXCEPT !.intervalSeconds = s,
                                       !.intervalEnabled = (en /\ s > 0)]
           /\ saveConfig
           /\ nextIntervalAt' = IF config'.intervalEnabled
                                THEN (ms + PeriodTicks(config')) % TickMod
                                ELSE 0
           /\ sinceArmed' = IF config'.intervalEnabled THEN 0 ELSE sinceArmed
           /\ armed' = (armed \/ config'.intervalEnabled)
           /\ obs' = [Did("handleIntervalPost") EXCEPT !.arg = n, !.ok = TRUE]
           /\ UNCHANGED <<pulseVars, schedVars>>

\* handleIntervalPost(): POST /api/interval.
handleIntervalPost(args) ==
  IF ~hasArg(args, "seconds")
  THEN /\ obs' = Did("handleIntervalPost")
       /\ UNCHANGED <<config, store, nextIntervalAt, armed, sinceArmed, pulseVars, schedVars>>
  ELSE LET n == toInt(args["seconds"])
           s == ToUint(n)
           en == hasArg(args, "enabled")
       IN  /\ config' = [config EXCEPT !.intervalSeconds = s,
                                       !.intervalEnabled = (en /\ s > 0)]
           /\ saveConfig
           /\ nextIntervalAt' = IF config'.intervalEnabled
                                THEN (ms + PeriodTicks(config')) % TickMod
                                ELSE nextIntervalAt
           /\ sinceArmed' = IF config'.intervalEnabled THEN 0 ELSE sinceArmed
           /\ armed' = (armed \/ config'.intervalEnabled)
           /\ obs' = [Did("handleIntervalPost") EXCEPT !.arg = n, !.ok = TRUE]
           /\ UNCHANGED <<pulseVars, schedVars>>

\* handleScheduleAdd(): POST /api/schedule/add.
handleScheduleAdd(args) ==
  IF ~hasArg(args, "time")
  THEN /\ obs' = Did("handleScheduleAdd")
       /\ UNCHANGED <<config, store, nextIntervalAt, armed, sinceArmed, pulseVars, schedVars>>
  ELSE IF parseTimeToMinutes(args["time"]) < 0
  THEN /\ obs' = [Did("handleScheduleAdd") EXCEPT !.text = args["time"]]
       /\ UNCHANGED <<config, store, nextIntervalAt, armed, sinceArmed, pulseVars, schedVars>>
  ELSE /\ config' = [config EXCEPT !.scheduleTimes = Append(@, args["time"])]
       /\ saveConfig
       /\ scheduleFiredToday' = AllFalse(Len(config'.scheduleTimes))
       /\ firedDays' = Append(firedDays, {})
       /\ obs' = [Did("handleScheduleAdd") EXCEPT !.text = args["time"], !.ok = TRUE]
       /\ UNCHANGED <<nextIntervalAt, armed, sinceArmed, pulseVars, lastTimeCheck, lastDayOfYear, evaluatedAt>>

\* Mutant of handleScheduleRemove(): the flags are not rebuilt.
handleScheduleRemoveKeepsFlags(args) ==
  IF ~hasArg(args, "idx")
  THEN /\ obs' = Did("handleScheduleRemove")
       /\ UNCHANGED <<config, store, nextIntervalAt, armed, sinceArmed, pulseVars, schedVars>>
  ELSE LET idx == toInt(args["idx"])
       IN  IF idx < 0 \/ idx >= Len(config.scheduleTimes)
           THEN /\ obs' = [Did("handleScheduleRemove") EXCEPT !.arg = idx]
                /\ UNCHANGED <<config, store, nextIntervalAt, armed, sinceArmed, pulseVars, schedVars>>
           ELSE /\ config' = [config EXCEPT !.scheduleTimes = RemoveAt(@, idx)]
                /\ saveConfig
                /\ scheduleFiredToday' = scheduleFiredToday
                /\ firedDays' = RemoveAt(firedDays, idx)
                /\ obs' = [Did("handleScheduleRemove") EXCEPT !.arg = idx, !.ok = TRUE]
                /\ UNCHANGED <<nextIntervalAt, armed, sinceArmed, pulseVars, lastTimeCheck, lastDayOfYear, evaluatedAt>>

\* handleScheduleRemove(): POST /api/schedule/remove.
handleScheduleRemove(args) ==
  IF ~hasArg(args, "idx")
  THEN /\ obs' = Did("handleScheduleRemove")
       /\ UNCHANGED <<config, store, nextIntervalAt, armed, sinceArmed, pulseVars, schedVars>>
  ELSE LET idx == toInt(args["idx"])
       IN  IF idx < 0 \/ idx >= Len(config.scheduleTimes)
           THEN /\ obs' = [Did("handleScheduleRemove") EXCEPT !.arg = idx]
                /\ UNCHANGED <<config, store, nextIntervalAt, armed, sinceArmed, pulseVars, schedVars>>
           ELSE /\ config' = [config EXCEPT !.scheduleTimes = RemoveAt(@, idx)]
                /\ saveConfig
                /\ scheduleFiredToday' = AllFalse(Len(config'.scheduleTimes))
                /\ firedDays' = RemoveAt(firedDays, idx)
                /\ obs' = [Did("handleScheduleRemove") EXCEPT !.arg = idx, !.ok = TRUE]
                /\ UNCHANGED <<nextIntervalAt, armed, sinceArmed, pulseVars, lastTimeCheck, lastDayOfYear, evaluatedAt>>

Max(a, b) == IF a >= b THEN a ELSE b

\* Mutant of handleConfigPost(): the pin is re-applied on every update.
handleConfigPostAlwaysApplies(args) ==
  LET newPin == IF hasArg(args, "triggerPin") THEN toInt(args["triggerPin"])
                ELSE config.triggerPin
      needApplyPin == TRUE
      high == IF hasArg(args, "activeLevel") THEN args["activeLevel"] = <<"H", "I", "G", "H">>
              ELSE config.triggerActiveHigh
      dur == IF hasArg(args, "pulseMs") THEN ToUint(Max(1, toInt(args["pulseMs"])))
             ELSE config.triggerDurationMs
      tz == IF hasArg(args, "tz") THEN toInt(args["tz"])
            ELSE config.timezoneOffsetMinutes
  IN  /\ config' = [config EXCEPT !.triggerPin = newPin,
                                  !.triggerActiveHigh = high,
                                  !.triggerDurationMs = dur,
                                  !.timezoneOffsetMinutes = tz]
      /\ saveConfig
      /\ gpio' = IF needApplyPin THEN applyTriggerPin(gpio, config') ELSE gpio
      /\ obs' = [Did("handleConfigPost") EXCEPT
                   !.writers = IF needApplyPin THEN {"applyTriggerPin"} ELSE {},
                   !.text = IF hasArg(args, "pulseMs") THEN args["pulseMs"] ELSE <<>>,
                   !.ok = TRUE]
      /\ UNCHANGED <<triggerInProgress, lastTriggerAt, firedOn, nextIntervalAt, armed, sinceArmed, schedVars>>

\* handleConfigPost(): POST /api/config (trigger and time-zone fields; the
\* MQTT transport fields are not modelled).
handleConfigPost(args) ==
  LET newPin == IF hasArg(args, "triggerPin") THEN toInt(args["triggerPin"])
                ELSE config.triggerPin
      needApplyPin == newPin # config.triggerPin
      high == IF hasArg(args, "activeLevel") THEN args["activeLevel"] = <<"H", "I", "G", "H">>
              ELSE config.triggerActiveHigh
      dur == IF hasArg(args, "pulseMs") THEN ToUint(Max(1, toInt(args["pulseMs"])))
             ELSE config.triggerDurationMs
      tz == IF hasArg(args, "tz") THEN toInt(args["tz"])
            ELSE config.timezoneOffsetMinutes
  IN  /\ config' = [config EXCEPT !.triggerPin = newPin,
                                  !.triggerActiveHigh = high,
                                  !.triggerDurationMs = dur,
                                  !.timezoneOffsetMinutes = tz]
      /\ saveConfig
      /\ gpio' = IF needApplyPin THEN applyTriggerPin(gpio, config') ELSE gpio
      /\ obs' = [Did("handleConfigPost") EXCEPT
                   !.writers = IF needApplyPin THEN {"applyTriggerPin"} ELSE {},
                   !.text = IF hasArg(args, "pulseMs") THEN args["pulseMs"] ELSE <<>>,
                   !.ok = TRUE]
      /\ UNCHANGED <<triggerInProgress, lastTriggerAt, firedOn, nextIntervalAt, armed, sinceArmed, schedVars>>

NoRequest == [path |-> "", args |-> <<>>]

\* server.handleClient(): at most one pending request is served per iteration.
ServeRequest(r) ==
  CASE r.path = "/api/trigger" -> handleTriggerPost(r.args)
    [] r.path = "/api/interval" -> handleIntervalPost(r.args)
    [] r.path = "/api/schedule/add" -> handleScheduleAdd(r.args)
    [] r.path = "/api/schedule/remove" -> handleScheduleRemove(r.args)
    [] r.path = "/api/config" -> handleConfigPost(r.args)
    [] OTHER -> /\ obs' = Quiet
                /\ UNCHANGED <<config, store, nextIntervalAt, armed, sinceArmed, pulseVars, schedVars>>

\* A request or message that would grow the schedule past MaxSched is not offered.
WithinBound == Len(config'.scheduleTimes) <= MaxSched

\* loop(), line 597: server.handleClient().
HandleClient(requests) ==
  /\ pc = "handleClient"
  /\ \E r \in requests \cup {NoRequest} : ServeRequest(r)
  /\ WithinBound
  /\ pc' = "mqttLoop"
  /\ UNCHANGED envVars

NoMessage == <<>>

\* loop(), lines 600-610: mqttClient.loop() delivers at most one message.
MqttLoop(messages) ==
  /\ pc = "mqttLoop"
  /\ \E m \in messages \cup {NoMessage} : mqttCallback(m)
  /\ WithinBound
  /\ pc' = "pulse"
  /\ UNCHANGED envVars

\* Mutant of the pulse finish: the end of the pulse is compared without wraparound.
FinishPulsePlainCompare ==
  /\ pc = "pulse"
  /\ IF triggerInProgress /\ ms >= lastTriggerAt + config.triggerDurationMs
     THEN /\ gpio' = [gpio EXCEPT ![config.triggerPin] =
                        IF config.triggerActiveHigh THEN "LOW" ELSE "HIGH"]
          /\ triggerInProgress' = FALSE
          /\ obs' = [Quiet EXCEPT !.writers = {"loop"}, !.ok = TRUE]
     ELSE /\ obs' = Quiet
          /\ UNCHANGED <<gpio, triggerInProgress>>
  /\ pc' = "interval"
  /\ UNCHANGED <<config, store, lastTriggerAt, firedOn, nextIntervalAt, armed, sinceArmed, schedVars, envVars>>

\* loop(), lines 612-620: finish the trigger pulse.
FinishPulse ==
  /\ pc = "pulse"
  /\ IF triggerInProgress /\ (ms - lastTriggerAt) % TickMod >= config.triggerDurationMs
     THEN /\ gpio' = [gpio EXCEPT ![config.triggerPin] =
                        IF config.triggerActiveHigh THEN "LOW" ELSE "HIGH"]
          /\ triggerInProgress' = FALSE
          /\ obs' = [Quiet EXCEPT !.writers = {"loop"}, !.ok = TRUE]
     ELSE /\ obs' = Quiet
          /\ UNCHANGED <<gpio, triggerInProgress>>
  /\ pc' = "interval"
  /\ UNCHANGED <<config, store, lastTriggerAt, firedOn, nextIntervalAt, armed, sinceArmed, schedVars, envVars>>

\* Mutant of the interval handling: the deadline is re-armed from millis().
IntervalHandlingDrifts ==
  /\ pc = "interval"
  /\ IF config.intervalEnabled /\ config.intervalSeconds > 0
     THEN IF nextIntervalAt = 0
          THEN /\ nextIntervalAt' = (ms + PeriodTicks(config)) % TickMod
               /\ obs' = Quiet
               /\ UNCHANGED pulseVars
          ELSE IF ToLong((ms - nextIntervalAt) % TickMod) >= 0
          THEN LET P == triggerPulse(PulseRec, config, ms)
               IN  /\ SetPulse(P)
                   /\ nextIntervalAt' = (ms + PeriodTicks(config)) % TickMod
                   /\ obs' = ObsOf("none", P, (ms - nextIntervalAt) % TickMod, TRUE)
          ELSE /\ obs' = Quiet
               /\ UNCHANGED <<nextIntervalAt, pulseVars>>
     ELSE /\ obs' = Quiet
          /\ UNCHANGED <<nextIntervalAt, pulseVars>>
  /\ pc' = "schedule"
  /\ armed' = (armed \/ (config.intervalEnabled /\ config.intervalSeconds > 0))
  /\ UNCHANGED <<config, store, sinceArmed, schedVars, envVars>>

\* Mutant of the interval handling: the enabled flag is not looked at.
IntervalHandlingIgnoresEnabled ==
  /\ pc = "interval"
  /\ IF config.intervalSeconds > 0
     THEN IF nextIntervalAt = 0
          THEN /\ nextIntervalAt' = (ms + PeriodTicks(config)) % TickMod
               /\ obs' = Quiet
               /\ UNCHANGED pulseVars
          ELSE IF ToLong((ms - nextIntervalAt) % TickMod) >= 0
          THEN LET P == triggerPulse(PulseRec, config, ms)
               IN  /\ SetPulse(P)
                   /\ nextIntervalAt' = (nextIntervalAt + PeriodTicks(config)) % TickMod
                   /\ obs' = ObsOf("none", P, (ms - nextIntervalAt) % TickMod, TRUE)
          ELSE /\ obs' = Quiet
               /\ UNCHANGED <<nextIntervalAt, pulseVars>>
     ELSE /\ obs' = Quiet
          /\ UNCHANGED <<nextIntervalAt, pulseVars>>
  /\ pc' = "schedule"
  /\ armed' = (armed \/ (config.intervalEnabled /\ config.intervalSeconds > 0))
  /\ UNCHANGED <<config, store, sinceArmed, schedVars, envVars>>

\* loop(), lines 622-630: interval handling.
IntervalHandling ==
  /\ pc = "interval"
  /\ IF config.intervalEnabled /\ config.intervalSeconds > 0
     THEN IF nextIntervalAt = 0
          THEN /\ nextIntervalAt' = (ms + PeriodTicks(config)) % TickMod
               /\ obs' = Quiet
               /\ UNCHANGED pulseVars
          ELSE IF ToLong((ms - nextIntervalAt) % TickMod) >= 0
          THEN LET P == triggerPulse(PulseRec, config, ms)
               IN  /\ SetPulse(P)
                   /\ nextIntervalAt' = (nextIntervalAt + PeriodTicks(config)) % TickMod
                   /\ obs' = ObsOf("none", P, (ms - nextIntervalAt) % TickMod, TRUE)
          ELSE /\ obs' = Quiet
               /\ UNCHANGED <<nextIntervalAt, pulseVars>>
     ELSE /\ obs' = Quiet
          /\ UNCHANGED <<nextIntervalAt, pulseVars>>
  /\ pc' = "schedule"
  /\ armed' = (armed \/ (config.intervalEnabled /\ config.intervalSeconds > 0))
  /\ UNCHANGED <<config, store, sinceArmed, schedVars, envVars>>

\* Mutant of the schedule check: the second just looked at is not recorded.
ScheduleCheckForgets ==
  /\ pc = "schedule"
  /\ IF clock # lastTimeCheck
     THEN /\ lastTimeCheck' = lastTimeCheck
          /\ evaluatedAt' = evaluatedAt \cup {clock}
          /\ pc' = "evaluate"
     ELSE /\ pc' = "handleClient"
          /\ UNCHANGED <<lastTimeCheck, evaluatedAt>>
  /\ obs' = [Did("ScheduleCheck") EXCEPT !.ok = (clock # lastTimeCheck)]
  /\ UNCHANGED <<config, store, nextIntervalAt, armed, sinceArmed, pulseVars,
                 scheduleFiredToday, firedDays, lastDayOfYear, envVars>>

\* loop(), lines 632-635: the schedule is looked at once per value of time(nullptr).
ScheduleCheck ==
  /\ pc = "schedule"
  /\ IF clock # lastTimeCheck
     THEN /\ lastTimeCheck' = clock
          /\ evaluatedAt' = evaluatedAt \cup {clock}
          /\ pc' = "evaluate"
     ELSE /\ pc' = "handleClient"
          /\ UNCHANGED <<lastTimeCheck, evaluatedAt>>
  /\ obs' = [Did("ScheduleCheck") EXCEPT !.ok = (clock # lastTimeCheck)]
  /\ UNCHANGED <<config, store, nextIntervalAt, armed, sinceArmed, pulseVars,
                 scheduleFiredToday, firedDays, lastDayOfYear, envVars>>

\* gmtime_r(): the broken-down form of an epoch (dates in 1970, no leap day).
BrokenDown(epoch) ==
  [tm_yday |-> (epoch \div 86400) % 365,
   tm_hour |-> (epoch % 86400) \div 3600,
   tm_min |-> (epoch % 3600) \div 60,
   tm_sec |-> epoch % 60]

\* getLocalTimeBrokenDown(): a second read of time(nullptr), shifted by the offset.
getLocalTimeBrokenDown(cfg, now_utc) ==
  BrokenDown(now_utc + cfg.timezoneOffsetMinutes * 60)

\* loop(), lines 650-657: the entries are visited in order.
RECURSIVE FireDue(_, _, _, _, _)
FireDue(i, cfg, currentMin, R, now) ==
  IF i > Len(cfg.scheduleTimes) THEN R
  ELSE LET schedMin == parseTimeToMinutes(cfg.scheduleTimes[i])
       IN  IF schedMin >= 0 /\ ~R.flags[i] /\ schedMin = currentMin
           THEN FireDue(i + 1, cfg, currentMin,
                        [P |-> triggerPulse(R.P, cfg, now),
                         flags |-> [R.flags EXCEPT ![i] = TRUE]], now)
           ELSE FireDue(i + 1, cfg, currentMin, R, now)

\* Mutant of the schedule evaluation: the firing check runs on the flags of
\* the day before, and the flags are reset after it.
ScheduleEvaluateResetsLate ==
  /\ pc = "evaluate"
  /\ LET tm_local == getLocalTimeBrokenDown(config, clock)
         newDay == tm_local.tm_yday # lastDayOfYear
         flags0 == scheduleFiredToday
         currentMin == tm_local.tm_hour * 60 + tm_local.tm_min
         R0 == [P |-> PulseRec, flags |-> flags0]
         R == IF tm_local.tm_sec = 0 THEN FireDue(1, config, currentMin, R0, ms)
              ELSE R0
     IN  /\ lastDayOfYear' = IF newDay THEN tm_local.tm_yday ELSE lastDayOfYear
         /\ scheduleFiredToday' = IF newDay THEN AllFalse(Len(config.scheduleTimes)) ELSE R.flags
         /\ firedDays' = [i \in DOMAIN firedDays |->
                            IF R.flags[i] /\ ~flags0[i]
                            THEN firedDays[i] \cup {tm_local.tm_yday} ELSE firedDays[i]]
         /\ SetPulse(R.P)
         /\ obs' = ObsOf("none", R.P, FiredCount(scheduleFiredToday), newDay)
  /\ pc' = "handleClient"
  /\ UNCHANGED <<config, store, nextIntervalAt, armed, sinceArmed, lastTimeCheck, evaluatedAt, envVars>>

\* Mutant of the schedule evaluation: the second of the minute is not looked at.
ScheduleEvaluateAnySecond ==
  /\ pc = "evaluate"
  /\ LET tm_local == getLocalTimeBrokenDown(config, clock)
         newDay == tm_local.tm_yday # lastDayOfYear
         flags0 == IF newDay THEN AllFalse(Len(config.scheduleTimes))
                   ELSE scheduleFiredToday
         currentMin == tm_local.tm_hour * 60 + tm_local.tm_min
         R0 == [P |-> PulseRec, flags |-> flags0]
         R == FireDue(1, config, currentMin, R0, ms)
     IN  /\ lastDayOfYear' = IF newDay THEN tm_local.tm_yday ELSE lastDayOfYear
         /\ scheduleFiredToday' = R.flags
         /\ firedDays' = [i \in DOMAIN firedDays |->
                            IF R.flags[i] /\ ~flags0[i]
                            THEN firedDays[i] \cup {tm_local.tm_yday} ELSE firedDays[i]]
         /\ SetPulse(R.P)
         /\ obs' = ObsOf("none", R.P, FiredCount(scheduleFiredToday), newDay)
  /\ pc' = "handleClient"
  /\ UNCHANGED <<config, store, nextIntervalAt, armed, sinceArmed, lastTimeCheck, evaluatedAt, envVars>>

\* loop(), lines 636-658: the body of the once-per-second schedule check.
ScheduleEvaluate ==
  /\ pc = "evaluate"
  /\ LET tm_local == getLocalTimeBrokenDown(config, clock)
         newDay == tm_local.tm_yday # lastDayOfYear
         flags0 == IF newDay THEN AllFalse(Len(config.scheduleTimes))
                   ELSE scheduleFiredToday
         currentMin == tm_local.tm_hour * 60 + tm_local.tm_min
         R0 == [P |-> PulseRec, flags |-> flags0]
         R == IF tm_local.tm_sec = 0 THEN FireDue(1, config, currentMin, R0, ms)
              ELSE R0
     IN  /\ lastDayOfYear' = IF newDay THEN tm_local.tm_yday ELSE lastDayOfYear
         /\ scheduleFiredToday' = R.flags
         /\ firedDays' = [i \in DOMAIN firedDays |->
                            IF R.flags[i] /\ ~flags0[i]
                            THEN firedDays[i] \cup {tm_local.tm_yday} ELSE firedDays[i]]
         /\ SetPulse(R.P)
         /\ obs' = ObsOf("none", R.P, FiredCount(scheduleFiredToday), newDay)
  /\ pc' = "handleClient"
  /\ UNCHANGED <<config, store, nextIntervalAt, armed, sinceArmed, lastTimeCheck, evaluatedAt, envVars>>

\* ------------------------------------------------------------- environment

\* millis() advances (and wraps) between any two steps of the program.
Tick(steps) ==
  /\ \E d \in steps : /\ ms' = (ms + d) % TickMod
                      /\ sinceArmed' = IF sinceArmed + d < Half THEN sinceArmed + d ELSE Half
  /\ UNCHANGED <<config, store, nextIntervalAt, armed, pulseVars, schedVars, clock, pc, obs>>

\* millis() as a loop that iterates faster than the counter counts sees it:
\* between two iterations it moves on by at most one tick.
LoopTick ==
  /\ pc = "handleClient"
  /\ obs.op # "millis"
  /\ ms' = (ms + 1) % TickMod
  /\ sinceArmed' = IF sinceArmed + 1 < Half THEN sinceArmed + 1 ELSE Half
  /\ obs' = Did("millis")
  /\ UNCHANGED <<config, store, nextIntervalAt, armed, pulseVars, schedVars, clock, pc>>

\* time(nullptr) never goes back; it moves on to a later instant.
ClockAdvance(instants) ==
  /\ \E t \in instants : t > clock /\ clock' = t
  /\ UNCHANGED <<config, store, nextIntervalAt, armed, sinceArmed, pulseVars, schedVars, ms, pc, obs>>

\* ------------------------------------------------------------------ startup

\* setup(): loadConfig(), applyTriggerPin(), the flags sized to the schedule.
Setup(docs, t0) ==
  /\ store \in docs
  /\ config = loadConfig(store)
  /\ gpio = applyTriggerPin([p \in Pins |-> "unset"], config)
  /\ lastTriggerAt = 0
  /\ triggerInProgress = FALSE
  /\ nextIntervalAt = 0
  /\ lastTimeCheck = 0
  /\ lastDayOfYear = -1
  /\ scheduleFiredToday = AllFalse(Len(config.scheduleTimes))
  /\ firedDays = [i \in 1..Len(config.scheduleTimes) |-> {}]
  /\ ms = 0
  /\ clock = t0
  /\ pc = "handleClient"
  /\ firedOn = NoPin
  /\ evaluatedAt = {}
  /\ armed = FALSE
  /\ sinceArmed = 0
  /\ obs = Quiet

\* --------------------------------------------------------------- instants

\* An instant of 1970 as UTC epoch seconds: day of the year, hour, minute, second.
At(day, hh, mm, ss) == day * 86400 + hh * 3600 + mm * 60 + ss

\* ------------------------------------------- the pulse and the trigger config

Arg(name, text) == name :> text

TriggerForms ==
  { [path |-> "/api/config",
     args |-> Arg("triggerPin", pin) @@ Arg("activeLevel", lvl) @@ Arg("pulseMs", dur)] :
      pin \in {<<"5">>, <<"4">>},
      lvl \in {<<"H", "I", "G", "H">>, <<"L", "O", "W">>},
      dur \in {<<"1">>, <<"2">>} }

\* Config forms that carry only a pulse duration that is not positive.
DurationForms ==
  { [path |-> "/api/config", args |-> Arg("pulseMs", dur)] :
      dur \in {<<"0">>, <<"-", "1">>} }

PulseRequests ==
  {[path |-> "/api/trigger", args |-> <<>>]} \cup TriggerForms \cup DurationForms

PulseMessages == {K_TRIGGER, <<"1">>}

\* Stored documents: the defaults, an active-low trigger, and a document whose
\* triggerDurationMs is 0.  The interval is off and the schedule empty: the
\* pulse is fired over HTTP and MQTT.
PulseDocs ==
  {DefaultConfig,
   [DefaultConfig EXCEPT !.triggerActiveHigh = FALSE],
   [DefaultConfig EXCEPT !.triggerDurationMs = 0]}

InitPulse == Setup(PulseDocs, At(1, 12, 0, 59))

NextPulse ==
  \/ HandleClient(PulseRequests)
  \/ MqttLoop(PulseMessages)
  \/ FinishPulse
  \/ IntervalHandling
  \/ ScheduleCheck
  \/ ScheduleEvaluate
  \/ Tick({1})

SpecPulse == InitPulse /\ [][NextPulse]_vars

\* --------------------------------------------------------------- the interval

Payload(keyword, text) == keyword \o text

IntervalMessages ==
  {K_TRIGGER, K_STOP_INTERVAL,
   Payload(K_INTERVAL, <<"1">>), Payload(K_INTERVAL, <<"2">>),
   Payload(K_INTERVAL, <<"0">>), Payload(K_INTERVAL, <<"-", "1">>),
   Payload(K_INTERVAL, <<"x">>)}

IntervalRequests ==
  {[path |-> "/api/trigger", args |-> <<>>],
   [path |-> "/api/interval", args |-> Arg("seconds", <<"1">>) @@ Arg("enabled", <<"o", "n">>)],
   [path |-> "/api/interval", args |-> Arg("seconds", <<"0">>) @@ Arg("enabled", <<"o", "n">>)],
   [path |-> "/api/interval", args |-> Arg("seconds", <<"-", "1">>) @@ Arg("enabled", <<"o", "n">>)],
   [path |-> "/api/interval", args |-> Arg("seconds", <<"3">>)],
   [path |-> "/api/interval", args |-> Arg("enabled", <<"o", "n">>)]}

\* Stored documents: no file (the defaults), a document written by an earlier
\* run with the interval on, and one that sets intervalEnabled without
\* intervalSeconds.
IntervalDocs ==
  {DefaultConfig,
   [DefaultConfig EXCEPT !.intervalSeconds = 1, !.intervalEnabled = TRUE],
   [DefaultConfig EXCEPT !.intervalEnabled = TRUE]}

InitInterval == Setup(IntervalDocs, At(1, 12, 0, 59))

NextInterval ==
  \/ HandleClient(IntervalRequests)
  \/ MqttLoop(IntervalMessages)
  \/ FinishPulse
  \/ IntervalHandling
  \/ ScheduleCheck
  \/ ScheduleEvaluate
  \/ Tick({1})

SpecInterval == InitInterval /\ [][NextInterval]_vars

\* ------------------------------------------------------------- wide periods

\* Positive periods whose milliseconds exceed half the tick range, or wrap it.
WideMessages ==
  {K_STOP_INTERVAL, Payload(K_INTERVAL, <<"1">>),
   Payload(K_INTERVAL, <<"3">>), Payload(K_INTERVAL, <<"4">>)}

WideRequests ==
  {[path |-> "/api/interval", args |-> Arg("seconds", <<"3">>) @@ Arg("enabled", <<"o", "n">>)]}

InitWide == Setup({DefaultConfig}, At(1, 12, 0, 59))

NextWide ==
  \/ HandleClient(WideRequests)
  \/ MqttLoop(WideMessages)
  \/ FinishPulse
  \/ IntervalHandling
  \/ ScheduleCheck
  \/ ScheduleEvaluate
  \/ Tick({1})

SpecWide == InitWide /\ [][NextWide]_vars

\* --------------------------------------------------------------- the schedule

T0000 == <<"0", "0", ":", "0", "0">>
T0805 == <<"0", "8", ":", "0", "5">>
T2500 == <<"2", "5", ":", "0", "0">>
T0860 == <<"0", "8", ":", "6", "0">>
Tabcd == <<"a", "b", ":", "c", "d">>

ScheduleMessages ==
  {K_CLEAR_SCHEDULE,
   Payload(K_ADD_SCHEDULE, T0000), Payload(K_ADD_SCHEDULE, T0805),
   Payload(K_ADD_SCHEDULE, T2500)}

ScheduleRequests ==
  {[path |-> "/api/schedule/add", args |-> Arg("time", T0000)],
   [path |-> "/api/schedule/remove", args |-> Arg("idx", <<"0">>)],
   [path |-> "/api/schedule/remove", args |-> Arg("idx", <<"1">>)],
   [path |-> "/api/schedule/remove", args |-> Arg("idx", <<"-", "1">>)],
   [path |-> "/api/schedule/remove", args |-> Arg("idx", <<"7">>)],
   [path |-> "/api/schedule/remove", args |-> <<>>]}

\* Stored documents: no file, a list with a duplicated entry, and a list
\* holding a text that loadConfig() drops.
ScheduleDocs ==
  {DefaultConfig,
   [DefaultConfig EXCEPT !.scheduleTimes = <<T0000, T0000>>],
   [DefaultConfig EXCEPT !.scheduleTimes = <<T0805, T2500>>]}

\* The last second of day 1, midnight of day 2 and the second after it,
\* midnight of day 3.
ScheduleInstants == {At(1, 23, 59, 59), At(2, 0, 0, 0), At(2, 0, 0, 1), At(3, 0, 0, 0)}

InitSchedule == Setup(ScheduleDocs, At(1, 23, 59, 59))

\* The schedule does not read millis(): a coarse tick lets its pulses end.
NextSchedule ==
  \/ HandleClient(ScheduleRequests)
  \/ MqttLoop(ScheduleMessages)
  \/ FinishPulse
  \/ IntervalHandling
  \/ ScheduleCheck
  \/ ScheduleEvaluate
  \/ Tick({Half})
  \/ ClockAdvance(ScheduleInstants)

SpecSchedule == InitSchedule /\ [][NextSchedule]_vars

\* ----------------------------------------------------- the add-entry slice

\* ADD_SCHEDULE payloads: two times of day, an hour and a minute out of range,
\* and a text that is no time of day.
AddMessages ==
  {K_CLEAR_SCHEDULE,
   Payload(K_ADD_SCHEDULE, T0000), Payload(K_ADD_SCHEDULE, T0805),
   Payload(K_ADD_SCHEDULE, T2500), Payload(K_ADD_SCHEDULE, T0860),
   Payload(K_ADD_SCHEDULE, Tabcd)}

AddRequests ==
  {[path |-> "/api/schedule/add", args |-> Arg("time", T0805)],
   [path |-> "/api/schedule/add", args |-> Arg("time", T2500)],
   [path |-> "/api/schedule/add", args |-> <<>>]}

AddDocs == {DefaultConfig, [DefaultConfig EXCEPT !.scheduleTimes = <<T0805>>]}

InitAdd == Setup(AddDocs, At(1, 23, 59, 59))

NextAdd ==
  \/ HandleClient(AddRequests)
  \/ MqttLoop(AddMessages)
  \/ FinishPulse
  \/ IntervalHandling
  \/ ScheduleCheck
  \/ ScheduleEvaluate
  \/ Tick({Half})
  \/ ClockAdvance({At(2, 0, 0, 0)})

SpecAdd == InitAdd /\ [][NextAdd]_vars

\* ------------------------------------------------- the letter-case slice

\* A text with its upper-case letters replaced by the lower-case ones.
Lowered(s) ==
  [i \in DOMAIN s |->
     IF \E c \in DOMAIN LowerToUpper : LowerToUpper[c] = s[i]
     THEN CHOOSE c \in DOMAIN LowerToUpper : LowerToUpper[c] = s[i]
     ELSE s[i]]

\* Each command in its canonical form and with its keyword in lower case.
CaseMessages ==
  {K_TRIGGER, K_STOP_INTERVAL, K_CLEAR_SCHEDULE,
   Payload(K_INTERVAL, <<"2">>), Payload(K_ADD_SCHEDULE, T0805),
   Lowered(K_TRIGGER), Lowered(K_STOP_INTERVAL), Lowered(K_CLEAR_SCHEDULE),
   Payload(Lowered(K_INTERVAL), <<"2">>), Payload(Lowered(K_ADD_SCHEDULE), T0805)}

CaseDocs ==
  {DefaultConfig,
   [DefaultConfig EXCEPT !.intervalSeconds = 1, !.intervalEnabled = TRUE,
                         !.scheduleTimes = <<T0000>>]}

InitCase == Setup(CaseDocs, At(1, 12, 0, 59))

NextCase ==
  \/ HandleClient({})
  \/ MqttLoop(CaseMessages)
  \/ FinishPulse
  \/ IntervalHandling
  \/ ScheduleCheck
  \/ ScheduleEvaluate
  \/ Tick({Half})

SpecCase == InitCase /\ [][NextCase]_vars

\* ------------------------------------------------- the pulse under fairness

\* Config forms that change pin, level and duration together.
LiveForms ==
  {[path |-> "/api/config",
    args |-> Arg("triggerPin", <<"4">>) @@ Arg("activeLevel", <<"L", "O", "W">>)
             @@ Arg("pulseMs", <<"2">>)],
   [path |-> "/api/config",
    args |-> Arg("triggerPin", <<"5">>) @@ Arg("activeLevel", <<"H", "I", "G", "H">>)
             @@ Arg("pulseMs", <<"1">>)]}

LiveRequests == {[path |-> "/api/trigger", args |-> <<>>]} \cup LiveForms

InitLive == Setup({DefaultConfig}, At(1, 12, 0, 59))

\* One step of loop().
LoopStep ==
  \/ HandleClient(LiveRequests)
  \/ MqttLoop({K_TRIGGER})
  \/ FinishPulse
  \/ IntervalHandling
  \/ ScheduleCheck
  \/ ScheduleEvaluate

NextLive ==
  \/ LoopStep
  \/ LoopTick

\* The loop keeps iterating and millis() keeps counting.
SpecLive ==
  InitLive /\ [][NextLive]_vars /\ WF_vars(LoopStep) /\ SF_vars(LoopTick)

\* ------------------------------------------------------------------- claims

\* Lateness of the loop with respect to the armed interval deadline, in ticks.
Lateness == (ms - nextIntervalAt) % TickMod

Inactive(cfg) == IF cfg.triggerActiveHigh THEN "LOW" ELSE "HIGH"

\* A step of the program (not of the clocks): the control loop moved on.
ProgramStep == pc' # pc

\* C1: a triggerPulse() request made while a pulse is in progress changes
\* nothing of the pulse: the flag stays set, the recorded activation tick and
\* every pin level are as before, whichever source (HTTP, MQTT, interval)
\* made the request.
C1_FireWhileActiveChangesNothing ==
  [][(ProgramStep /\ triggerInProgress /\ obs'.calls > 0)
       => /\ triggerInProgress'
          /\ lastTriggerAt' = lastTriggerAt
          /\ gpio' = gpio
          /\ obs'.accepts = 0]_vars

\* A request was ignored while the pulse was in progress, some ticks after it began.
C1_Witness ==
  /\ obs.calls = 1 /\ obs.accepts = 0
  /\ triggerInProgress
  /\ ms # lastTriggerAt

\* C4: when the interval step finds the armed deadline reached (late by any
\* number of ticks the signed comparison can see), it calls triggerPulse()
\* exactly once and moves the deadline to the previous deadline plus one period.
C4_OverrunAdvancesByOnePeriod ==
  [][(pc = "interval" /\ pc' = "schedule"
      /\ config.intervalEnabled /\ config.intervalSeconds > 0
      /\ nextIntervalAt # 0 /\ Lateness < Half)
       => /\ obs'.calls = 1
          /\ nextIntervalAt' = (nextIntervalAt + PeriodTicks(config)) % TickMod]_vars

\* An overrun observed at least one tick late was served with one request.
C4_Witness ==
  /\ pc = "schedule"
  /\ obs.ok /\ obs.calls = 1
  /\ obs.arg >= 1

\* C7: INTERVAL:<n> with n not positive changes nothing; with n positive it
\* sets intervalSeconds to n and enables the interval.
C7_IntervalCommandValidated ==
  [][(ProgramStep /\ obs'.op = "INTERVAL")
       => IF obs'.arg <= 0
          THEN /\ config' = config
               /\ store' = store
               /\ nextIntervalAt' = nextIntervalAt
          ELSE /\ config'.intervalSeconds = obs'.arg
               /\ config'.intervalEnabled]_vars

\* C10: an enabled interval has a positive period.
C10_EnabledImpliesPositivePeriod ==
  config.intervalEnabled => config.intervalSeconds > 0

\* C2: every accepted triggerPulse() drives the output to the asserted level,
\* and when that pulse ends the channel it asserted is back at the other
\* level, whatever configuration updates arrived while it was in progress.
C2_AcceptedFireEndsDeasserted ==
  [][ProgramStep
       => /\ obs'.accepts > 0
               => triggerInProgress' /\ gpio'[firedOn'.pin] = firedOn'.level
          /\ (triggerInProgress /\ ~triggerInProgress')
               => gpio'[firedOn.pin] # firedOn.level]_vars

\* C3 as stated: only triggerPulse() and the pulse finish in loop() write the output.
C3_OnlyPulseMachineWrites == obs.writers \subseteq {"triggerPulse", "loop"}

\* C3 as amended: the output is written by triggerPulse(), by the pulse finish
\* in loop(), and by applyTriggerPin(), which the configuration update calls
\* only when it changes the pin and which drives the newly selected pin, and
\* no other, to its inactive level; a step that makes none of these calls
\* leaves every pin level as it was.
C3_WritesOnlyByPulseOrPinChange ==
  [][ProgramStep
       => /\ obs'.writers \subseteq {"triggerPulse", "loop", "applyTriggerPin"}
          /\ "applyTriggerPin" \in obs'.writers
               => /\ obs'.op = "handleConfigPost"
                  /\ config'.triggerPin # config.triggerPin
                  /\ gpio'[config'.triggerPin] = Inactive(config')
                  /\ \A p \in Pins \ {config'.triggerPin} : gpio'[p] = gpio[p]
          /\ "triggerPulse" \in obs'.writers => obs'.accepts > 0
          /\ "loop" \in obs'.writers => pc = "pulse" /\ triggerInProgress
          /\ obs'.writers = {} => gpio' = gpio]_vars

\* A configuration update changed the pin while a pulse was in progress and
\* applyTriggerPin() wrote the new pin.
C3_Witness ==
  /\ obs.op = "handleConfigPost"
  /\ obs.writers = {"applyTriggerPin"}
  /\ triggerInProgress

\* The schedule entries due at the instant the evaluation reads: second 0 of
\* the minute the entry names.
DueNow(i) ==
  LET tm_local == getLocalTimeBrokenDown(config, clock)
  IN  /\ tm_local.tm_sec = 0
      /\ parseTimeToMinutes(config.scheduleTimes[i])
           = tm_local.tm_hour * 60 + tm_local.tm_min

\* C5: the evaluation pass that finds the local day of the year different
\* from lastDayOfYear records the new day and decides the firing from flags
\* that are all false: after the pass the flag of an entry is set exactly when
\* the entry is due, whatever the flags of the day before were, and
\* triggerPulse() was requested once for every due entry, duplicates included.
C5_RolloverResetsBeforeFiring ==
  [][(pc = "evaluate" /\ pc' = "handleClient"
      /\ getLocalTimeBrokenDown(config, clock).tm_yday # lastDayOfYear)
       => /\ lastDayOfYear' = getLocalTimeBrokenDown(config, clock).tm_yday
          /\ DOMAIN scheduleFiredToday' = DOMAIN config.scheduleTimes
          /\ \A i \in DOMAIN config.scheduleTimes :
               scheduleFiredToday'[i] = DueNow(i)
          /\ obs'.calls
               = Cardinality({i \in DOMAIN config.scheduleTimes : DueNow(i)})]_vars

\* On a new day, two entries whose flags were both set from the day before
\* each got triggerPulse() requested and their flag set again, at 00:00.
C5_Witness ==
  /\ pc = "handleClient"
  /\ obs.ok /\ obs.calls = 2 /\ obs.arg = 2
  /\ scheduleFiredToday = <<TRUE, TRUE>>
  /\ config.scheduleTimes = <<T0000, T0000>>

\* C6: the flags are as many as the schedule entries in every state the
\* control loop can be in, and a successful removal of index idx leaves the
\* other entries in their order with every flag false.
C6_FlagsAlignedWithEntries ==
  [][/\ Len(scheduleFiredToday) = Len(config.scheduleTimes)
     /\ Len(scheduleFiredToday') = Len(config'.scheduleTimes)
     /\ (ProgramStep /\ obs'.op = "handleScheduleRemove" /\ obs'.ok)
          => /\ Len(config'.scheduleTimes) = Len(config.scheduleTimes) - 1
             /\ \A i \in DOMAIN config'.scheduleTimes :
                  config'.scheduleTimes[i]
                    = config.scheduleTimes[IF i <= obs'.arg THEN i ELSE i + 1]
             /\ \A i \in DOMAIN scheduleFiredToday' : ~scheduleFiredToday'[i]]_vars

\* Index 0 was removed from a list that went on with a different entry.
C6_Witness ==
  /\ obs.op = "handleScheduleRemove" /\ obs.ok /\ obs.arg = 0
  /\ config.scheduleTimes # <<>>
  /\ config.scheduleTimes[1] = T0805
  /\ store.scheduleTimes = config.scheduleTimes

\* A text of the form HH:MM with the hour in 0..23 and the minute in 0..59.
IsHourMinute(t) ==
  /\ Len(t) = 5
  /\ t[3] = ":"
  /\ \A i \in {1, 2, 4, 5} : t[i] \in Digits
  /\ DigitVal[t[1]] * 10 + DigitVal[t[2]] <= 23
  /\ DigitVal[t[4]] * 10 + DigitVal[t[5]] <= 59

\* C8: an add-entry command is accepted exactly when its text is an hour in
\* 0..23 and a minute in 0..59: then the text is appended and the flags are
\* rebuilt all false; otherwise the entries and the flags stay as they were.
\* Every entry held is such a text.
C8_AddAcceptedIffHourMinute ==
  [][/\ (ProgramStep /\ obs'.op \in {"ADD_SCHEDULE", "handleScheduleAdd"})
          => IF IsHourMinute(obs'.text)
             THEN /\ config'.scheduleTimes = Append(config.scheduleTimes, obs'.text)
                  /\ scheduleFiredToday' = AllFalse(Len(config'.scheduleTimes))
             ELSE /\ config'.scheduleTimes = config.scheduleTimes
                  /\ scheduleFiredToday' = scheduleFiredToday
     /\ \A i \in DOMAIN config'.scheduleTimes :
          IsHourMinute(config'.scheduleTimes[i])]_vars

C11_PulseDurationPositive == config.triggerDurationMs > 0

\* The keyword of a command (up to and including its first colon, or the whole
\* message when it has none) in upper case, and the data that follows it.
KeywordOf(m) ==
  LET colon == indexOf(m, ":")
      k == IF colon < 0 THEN m ELSE substring(m, 0, colon + 1)
  IN  [i \in DOMAIN k |-> ToUpper(k[i])]

DataOf(m) ==
  LET colon == indexOf(m, ":")
  IN  IF colon < 0 THEN <<>> ELSE substringFrom(m, colon + 1)

\* C12: a message has the effect of its command whatever the letter case of
\* its keyword: TRIGGER requests a pulse, STOP_INTERVAL disables the interval,
\* CLEAR_SCHEDULE empties the schedule, INTERVAL:<n> with n positive sets the
\* period and enables the interval, ADD_SCHEDULE:<HH:MM> appends the entry.
C12_KeywordCaseIgnored ==
  [][(pc = "mqttLoop" /\ pc' = "pulse" /\ obs'.msg # <<>>)
       => LET k == KeywordOf(obs'.msg)
              d == DataOf(obs'.msg)
          IN  /\ k = K_TRIGGER => obs'.calls = 1
              /\ k = K_STOP_INTERVAL => ~config'.intervalEnabled
              /\ k = K_CLEAR_SCHEDULE
                   => config'.scheduleTimes = <<>> /\ scheduleFiredToday' = <<>>
              /\ (k = K_INTERVAL /\ toInt(d) > 0)
                   => config'.intervalSeconds = toInt(d) /\ config'.intervalEnabled
              /\ (k = K_ADD_SCHEDULE /\ IsHourMinute(d))
                   => config'.scheduleTimes = Append(config.scheduleTimes, d)]_vars

\* The period of the interval in ticks, as a number (not reduced to the word).
PeriodMs(cfg) == cfg.intervalSeconds * MsPerSec

\* C13: for a period below half the tick range, the interval step requests a
\* pulse only when at least a full period of ticks has passed since startup
\* or since the last command or form that left the interval enabled.
C13_NoFireBeforeFullPeriod ==
  [][(pc = "interval" /\ pc' = "schedule" /\ obs'.calls > 0
      /\ PeriodMs(config) > 0 /\ PeriodMs(config) < Half)
       => sinceArmed >= PeriodMs(config)]_vars

\* The interval fired exactly one period after an update made later than startup.
C13_Witness ==
  /\ pc = "schedule" /\ obs.op = "none" /\ obs.calls = 1
  /\ PeriodMs(config) > 0 /\ PeriodMs(config) < Half
  /\ sinceArmed = PeriodMs(config)
  /\ ms # sinceArmed

\* C14: STOP_INTERVAL disables the interval, keeps the period and saves the
\* configuration; while the interval is disabled the interval step requests no
\* pulse, and only an INTERVAL:<n> command or the interval form enables it again.
C14_StoppedIntervalStaysSilent ==
  [][/\ (ProgramStep /\ obs'.op = "STOP_INTERVAL")
          => /\ ~config'.intervalEnabled
             /\ config'.intervalSeconds = config.intervalSeconds
             /\ store' = config'
     /\ (pc = "interval" /\ pc' = "schedule" /\ ~config.intervalEnabled)
          => obs'.calls = 0 /\ nextIntervalAt' = nextIntervalAt
     /\ (~config.intervalEnabled /\ config'.intervalEnabled)
          => ProgramStep /\ obs'.op \in {"INTERVAL", "handleIntervalPost"}]_vars

\* After INTERVAL:2 and STOP_INTERVAL the interval step passed over a deadline
\* that had been reached, and requested nothing.
C14_Witness ==
  /\ pc = "schedule" /\ obs.op = "none" /\ obs.calls = 0
  /\ ~config.intervalEnabled /\ config.intervalSeconds = 2
  /\ nextIntervalAt # 0 /\ Lateness < Half

\* C15: an evaluation pass requests a pulse for exactly the entries that are
\* due at the local time the pass reads (second 0, the entry's hour and
\* minute) and whose flag, after the reset of a new day, is false, and it sets
\* the flags of those entries and of no other; a pass at any other second
\* requests nothing, and so does the once-per-second check itself.
C15_FiresOnlyDueUnfiredEntries ==
  [][/\ (pc = "evaluate" /\ pc' = "handleClient")
          => LET tm_local == getLocalTimeBrokenDown(config, clock)
                 fired(i) == /\ tm_local.tm_yday = lastDayOfYear
                             /\ scheduleFiredToday[i]
                 toFire == {i \in DOMAIN config.scheduleTimes : DueNow(i) /\ ~fired(i)}
             IN  /\ obs'.calls = Cardinality(toFire)
                 /\ tm_local.tm_sec # 0 => obs'.calls = 0
                 /\ \A i \in DOMAIN config.scheduleTimes :
                      scheduleFiredToday'[i] = (fired(i) \/ i \in toFire)
     /\ (pc = "schedule" /\ ProgramStep)
          => obs'.calls = 0 /\ scheduleFiredToday' = scheduleFiredToday]_vars

\* A pass at second 0 found its due entry already flagged (the check had
\* passed at the second before and again at this one) and requested nothing.
C15_Witness ==
  /\ pc = "handleClient" /\ obs.op = "none" /\ obs.calls = 0 /\ obs.arg >= 1
  /\ lastTimeCheck = clock
  /\ \E i \in DOMAIN config.scheduleTimes : DueNow(i) /\ scheduleFiredToday[i]

\* What the claims call engine state: the configuration in memory and in the
\* store, the interval deadline and the fired-today flags.
engineVars == <<config, store, nextIntervalAt, scheduleFiredToday>>

\* C16: an interval form whose seconds are not positive, a config form whose
\* pulse duration is not positive, and a removal whose index is out of range
\* each leave the configuration, the deadline and the flags as they were.
C16_InvalidFormsChangeNothing ==
  [][(/\ ProgramStep
      /\ \/ obs'.op = "handleIntervalPost" /\ obs'.ok /\ obs'.arg <= 0
         \/ obs'.op = "handleConfigPost" /\ obs'.text # <<>> /\ toInt(obs'.text) <= 0
         \/ /\ obs'.op = "handleScheduleRemove"
            /\ (obs'.arg < 0 \/ obs'.arg >= Len(config.scheduleTimes)))
       => UNCHANGED engineVars]_vars

\* C17 as stated: while the interval is disabled or its period is 0, the
\* deadline is unset.
C17_DisabledDeadlineUnset ==
  (~config.intervalEnabled \/ config.intervalSeconds = 0) => nextIntervalAt = 0

\* C17 as amended: a step of the program that ends with the interval disabled
\* or with period 0 (STOP_INTERVAL, a form that disables, the loop itself)
\* leaves the deadline at the value it had, and a command or form that leaves
\* the interval enabled sets the deadline to the current tick plus the period.
C17_DisabledDeadlineUntouched ==
  [][/\ (ProgramStep /\ (~config'.intervalEnabled \/ config'.intervalSeconds = 0))
          => nextIntervalAt' = nextIntervalAt
     /\ (ProgramStep /\ obs'.op \in {"INTERVAL", "handleIntervalPost"}
         /\ obs'.ok /\ config'.intervalEnabled)
          => nextIntervalAt' = (ms + PeriodTicks(config')) % TickMod]_vars

\* STOP_INTERVAL has just disabled an interval whose deadline stays armed.
C17_Witness ==
  /\ obs.op = "STOP_INTERVAL"
  /\ ~config.intervalEnabled
  /\ nextIntervalAt # 0

\* C18: the pulse update ends a pulse in progress exactly when the unsigned
\* difference between the tick and the activation tick, taken modulo the
\* word, has reached the pulse duration; ending drives the pin to the
\* inactive level.
C18_PulseEndsOnModularDifference ==
  [][(pc = "pulse" /\ pc' = "interval" /\ triggerInProgress)
       => /\ ~triggerInProgress'
            <=> ((ms - lastTriggerAt) % TickMod >= config.triggerDurationMs)
          /\ ~triggerInProgress'
               => gpio'[config.triggerPin] = Inactive(config)]_vars

\* A pulse that began before the tick counter wrapped was ended after it.
C18_Witness ==
  /\ pc = "interval" /\ obs.writers = {"loop"}
  /\ ~triggerInProgress
  /\ ms < lastTriggerAt
  /\ (ms - lastTriggerAt) % TickMod = config.triggerDurationMs

\* C19: with the interval enabled, a period below half the tick range and a
\* deadline armed, the interval step requests a pulse exactly when the tick is
\* at or after the deadline in the signed comparison, and it leaves the
\* deadline where it is or, when it fires, moves it on by one period;
\* whatever value in the tick range the deadline has.
C19_FiresAtOrAfterEveryDeadline ==
  [][(pc = "interval" /\ pc' = "schedule" /\ armed
      /\ config.intervalEnabled
      /\ PeriodMs(config) > 0 /\ PeriodMs(config) < Half)
       => LET reached == ToLong(Lateness) >= 0
          IN  /\ obs'.calls = IF reached THEN 1 ELSE 0
              /\ nextIntervalAt' = IF reached
                                   THEN (nextIntervalAt + PeriodMs(config)) % TickMod
                                   ELSE nextIntervalAt]_vars

\* The pulse in progress has lasted its (positive) duration at the current tick.
Elapsed ==
  /\ config.triggerDurationMs > 0
  /\ (ms - lastTriggerAt) % TickMod >= config.triggerDurationMs

\* C20: in a loop iteration the pulse update comes before every pulse request
\* of that iteration: a request made by a command handler while the pulse in
\* progress has already lasted its duration is accepted, the update ends such
\* a pulse, and the interval and schedule steps that follow it have their
\* request accepted when no pulse is in progress.
C20_StalePulseClearedBeforeRequests ==
  [][/\ (pc \in {"handleClient", "mqttLoop"} /\ ProgramStep
         /\ triggerInProgress /\ Elapsed /\ obs'.calls > 0)
          => obs'.accepts > 0
     /\ (pc = "pulse" /\ ProgramStep /\ triggerInProgress /\ Elapsed)
          => ~triggerInProgress' /\ pc' = "interval"
     /\ (pc \in {"interval", "evaluate"} /\ ProgramStep
         /\ ~triggerInProgress /\ obs'.calls > 0)
          => obs'.accepts = 1]_vars

\* C21: an evaluation pass never requests a pulse for an entry for which the
\* schedule has already requested one on the local day the pass reads.
C21_OneFirePerEntryPerDay ==
  [][(pc = "evaluate" /\ pc' = "handleClient")
       => LET tm_local == getLocalTimeBrokenDown(config, clock)
              fired(i) == /\ tm_local.tm_yday = lastDayOfYear
                          /\ scheduleFiredToday[i]
          IN  \A i \in DOMAIN config.scheduleTimes :
                (DueNow(i) /\ ~fired(i)) => tm_local.tm_yday \notin firedDays[i]]_vars

C23_IdlePinDeasserted ==
  (pc = "handleClient" /\ ~triggerInProgress)
    => gpio[config.triggerPin] = Inactive(config)

\* C24: whatever the accepted period, also one whose milliseconds reach half
\* the tick range or overflow it, the interval step requests a pulse only
\* when a full period of ticks (counted up to half the tick range) has passed
\* since startup or since the last command or form that left the interval
\* enabled.
C24_NoFireBeforePeriodAnyWidth ==
  [][(pc = "interval" /\ pc' = "schedule" /\ obs'.calls > 0)
       => sinceArmed >= (IF PeriodMs(config) < Half THEN PeriodMs(config) ELSE Half)]_vars

=============================================================================
